---- MODULE Spec2Model ----
(***************************************************************************)
(* The staged job-submission orchestrator of HCPpipelinesXnatPbsJobs:      *)
(* ccf.one_subject_job_submitter.OneSubjectJobSubmitter (submit_jobs,      *)
(* do_job_submissions and the submit_*_jobs steps), the overrides of the   *)
(* structural-preprocessing subclass (mark_running_status,                 *)
(* submit_process_data_jobs) and the two drivers: BatchSubmitter.submit_jobs*)
(* of SubmitDiffusionPreprocessingBatch.py and the __main__ block of the   *)
(* structural submitter.                                                   *)
(*                                                                         *)
(* The external collaborators (qsub, the XNAT running-status marker, the   *)
(* resource delete, the filesystem) are the environment: each call either  *)
(* succeeds or fails, chosen nondeterministically, and every call is       *)
(* recorded in the history variable events.                                *)
(***************************************************************************)
EXTENDS Integers, Sequences, FiniteSets, TLC

\* ---------------------------------------------------------------- bounds
\* number of work units in the subject list handed to the batch driver
NumUnits == 2
\* the wall clock is followed up to this second
MaxClock == 7
\* create_scripts is called at most this many times on one submitter
MaxRenders == 2

\* ------------------------------------------------------------- constants
\* Python's None, for a job number (prior = None)
None == 0
\* self._working_directory_name_prefix = None
NoPrefix == -1
\* time.sleep(5) in submit_jobs
SleepSeconds == 5
\* the first job identifier the scheduler hands out
FirstJobId == 1

\* ccf.processing_stage.ProcessingStage: an ordered enumeration, ordered by
\* declaration position
PREPARE_SCRIPTS == 1
GET_DATA == 2
PROCESS_DATA == 3
CLEAN_DATA == 4
PUT_DATA == 5
CHECK_DATA == 6

ProcessingStage == PREPARE_SCRIPTS..CHECK_DATA

StageName(s) ==
    CASE s = PREPARE_SCRIPTS -> "PREPARE_SCRIPTS"
      [] s = GET_DATA -> "GET_DATA"
      [] s = PROCESS_DATA -> "PROCESS_DATA"
      [] s = CLEAN_DATA -> "CLEAN_DATA"
      [] s = PUT_DATA -> "PUT_DATA"
      [] s = CHECK_DATA -> "CHECK_DATA"

\* the texts a configuration file may hold under ProcessingStage: the six
\* member names and one text that names no member
StageTexts == {StageName(s) : s \in ProcessingStage} \cup {"NOT_A_STAGE"}

\* ProcessingStage.from_string: the member of that name; fails (here: None)
\* when the text matches no member
from_string(str_value) ==
    IF \E s \in ProcessingStage : StageName(s) = str_value
    THEN CHOOSE s \in ProcessingStage : StageName(s) = str_value
    ELSE None

\* the label of the mark-complete entry of the manifest
CompleteLabel == "Complete Running Status"

\* the five stage steps, in the order do_job_submissions walks them
StageSteps == <<GET_DATA, PROCESS_DATA, CLEAN_DATA, PUT_DATA, CHECK_DATA>>

FirstUnit == 1
Units == FirstUnit..NumUnits

\* --------------------------------------------------------------- scripts
\* the script each step submits (the *_script_name properties); a name
\* stands for the path of the script of the current work unit
get_data_job_script_name == "XNAT_GET_DATA_job.sh"
process_data_job_script_name == "PROCESS_DATA_job.sh"
clean_data_script_name == "CLEAN_DATA_job.sh"
put_data_script_name == "XNAT_PUT_DATA_job.sh"
check_data_job_script_name == "XNAT_CHECK_DATA_job.sh"
mark_no_longer_running_script_name == "MARK_COMPLETE_RUNNING_STATUS_job.sh"

\* the three workspace directories are the prefix plus one of these
WorkingSuffix == ".XNAT_PROCESS_DATA"
CheckSuffix == ".XNAT_CHECK_DATA"
MarkSuffix == ".XNAT_MARK_COMPLETE_RUNNING_STATUS"

VARIABLES
    driver,              \* "batch": BatchSubmitter.submit_jobs; "main": __main__
    idx,                 \* position of the loop in subject_list
    pc,                  \* the statement the driver is at
    stage,               \* processing_stage handed to submit_jobs
    clean,               \* submitter.clean_output_resource_first
    prefix,              \* submitter._working_directory_name_prefix
    prior,               \* do_job_submissions: prior
    submitted_jobs_list, \* do_job_submissions: submitted_jobs_list
    all_process_nos,     \* do_job_submissions: all_process_data_job_nos
    config,              \* per unit: the configuration values the driver read
    returned,            \* per unit: the manifest the driver received
    runningStatus,       \* per unit: the RunningStatus marker in the archive
    fsDirs,              \* the directories that exist in the build space
    fsScripts,           \* the script files that exist, with their directory
    clock,               \* int(time.time())
    nextJobId,           \* the scheduler's next job identifier
    events,              \* history of the calls made to the collaborators
    procs,               \* per concurrent driver process: where it is and what it did
    fsText,              \* per script file that exists: its content and mode
    queue                \* the scheduler's jobs, by job identifier

vars == <<driver, idx, pc, stage, clean, prefix, prior, submitted_jobs_list,
          all_process_nos, config, returned, runningStatus, fsDirs, fsScripts, clock,
          nextJobId, events, procs, fsText, queue>>


\* ------------------------------------------------------ values and helpers
\* one call to a collaborator, as recorded in events
Ev(op, unit, arg, mode, dep, ok, job) ==
    [op |-> op, unit |-> unit, arg |-> arg, mode |-> mode, dep |-> dep,
     ok |-> ok, job |-> job]

\* the pair (last job number, list of all job numbers) a submit_*_jobs
\* function returns; isNone marks the pair (None, None)
Submitted(job_no) == [last |-> job_no, all |-> <<job_no>>, isNone |-> FALSE]
NotSubmitted == [last |-> None, all |-> <<>>, isNone |-> TRUE]

\* Python truth value of a job-number list that may be None
ListTruthy(r) == ~r.isNone /\ Len(r.all) > 0

\* what a submit_*_jobs function decided: whether it runs qsub, and the
\* command line (script, dependency mode, dependency job)
NoCmd == [run |-> FALSE, script |-> "", mode |-> "none", dep |-> None]

\* variant: the dependency names a job number other than prior_job
QsubCmd_Mut(script, mode, prior_job) ==
    IF prior_job # None
    THEN [run |-> TRUE, script |-> script, mode |-> mode, dep |-> prior_job + 1]
    ELSE [run |-> TRUE, script |-> script, mode |-> "none", dep |-> None]

QsubCmd(script, mode, prior_job) ==
    IF prior_job # None
    THEN [run |-> TRUE, script |-> script, mode |-> mode, dep |-> prior_job]
    ELSE [run |-> TRUE, script |-> script, mode |-> "none", dep |-> None]

\* variant: the threshold test of the get step off by one stage
submit_get_data_jobs_Mut(stg, prior_job) ==
    IF stg >= PROCESS_DATA
    THEN QsubCmd(get_data_job_script_name, "afterok", prior_job)
    ELSE NoCmd

submit_get_data_jobs(stg, prior_job) ==
    IF stg >= GET_DATA
    THEN QsubCmd(get_data_job_script_name, "afterok", prior_job)
    ELSE NoCmd

\* the base-class function; the structural subclass calls it and, with
\* _SUPPRESS_FREESURFER_ASSESSOR_JOB = True, returns its result unchanged
submit_process_data_jobs(stg, prior_job) ==
    IF stg >= PROCESS_DATA
    THEN QsubCmd(process_data_job_script_name, "afterok", prior_job)
    ELSE NoCmd

submit_clean_data_jobs(stg, prior_job) ==
    IF stg >= CLEAN_DATA
    THEN QsubCmd(clean_data_script_name, "afterok", prior_job)
    ELSE NoCmd

\* variant: the threshold test of the put step off by one stage
submit_put_data_jobs_Mut(stg, prior_job) ==
    IF stg >= CLEAN_DATA
    THEN QsubCmd(put_data_script_name, "afterok", prior_job)
    ELSE NoCmd

submit_put_data_jobs(stg, prior_job) ==
    IF stg >= PUT_DATA
    THEN QsubCmd(put_data_script_name, "afterok", prior_job)
    ELSE NoCmd

submit_check_jobs(stg, prior_job) ==
    IF stg >= CHECK_DATA
    THEN QsubCmd(check_data_job_script_name, "afterok", prior_job)
    ELSE NoCmd

\* variant: the mark-complete step built like a stage step
submit_no_longer_running_jobs_Mut(stg, prior_job) ==
    QsubCmd(mark_no_longer_running_script_name, "afterok", prior_job)

\* the mark-complete step: no test of the stage
submit_no_longer_running_jobs(stg, prior_job) ==
    QsubCmd(mark_no_longer_running_script_name, "afterany", prior_job)

\* do_job_submissions, after each step: the test that guards the append to
\* submitted_jobs_list. ret is what the step returned, proc what the
\* process-data step returned
AppendGetData(ret, proc) == ListTruthy(ret)
AppendProcessData(ret, proc) == ListTruthy(ret)
\* line 775 tests all_process_data_job_nos, not all_clean_data_job_nos
AppendCleanData(ret, proc) == ListTruthy(proc)
AppendPutData(ret, proc) == ListTruthy(ret)
AppendCheckData(ret, proc) == ListTruthy(ret)
AppendNoLongerRunning(ret, proc) == ListTruthy(ret)

\* variant: prior set by the first submitted step only
CarryPrior_Mut(old, ret) == IF old # None THEN old ELSE ret.last

\* do_job_submissions, after each step: if last_*_job_no: prior = last_*_job_no
CarryPrior(old, ret) == IF ret.last # None THEN ret.last ELSE old

\* variant: the prefix built from the clock on every read
working_directory_name_prefix_Mut(memo, now) == now

\* working_directory_name_prefix: built from the clock on the first read,
\* the stored value on every later read
working_directory_name_prefix(memo, now) ==
    IF memo = NoPrefix THEN now ELSE memo

\* variant: os.makedirs(name, exist_ok=True)
CanCreate_Mut(name, dirs) == TRUE

\* os.makedirs(name) raises FileExistsError when name exists
CanCreate(name, dirs) == name \notin dirs

\* a workspace directory of a unit, and a script file inside one
Dir(unit, pfx, suffix) == [unit |-> unit, ts |-> pfx, suffix |-> suffix]
working_directory_name(unit, pfx) == Dir(unit, pfx, WorkingSuffix)
\* variant: the check script put into the main working directory
check_data_directory_name_Mut(unit, pfx) == Dir(unit, pfx, WorkingSuffix)
check_data_directory_name(unit, pfx) == Dir(unit, pfx, CheckSuffix)
mark_completion_directory_name(unit, pfx) == Dir(unit, pfx, MarkSuffix)
ScriptFile(dir, name) == [dir |-> dir, name |-> name]

\* a script file that is not there
Absent == [exists |-> FALSE, text |-> <<>>, exec |-> FALSE]
\* the text a create_*_script method writes into script file f: it embeds
\* the file's directory and the unit's identity
Rendered(f) == [path |-> f.dir, script |-> f.name]

\* variant: the file opened for appending, what is there kept
write_script_Mut(file, text) ==
    [exists |-> TRUE, text |-> Append(file.text, text), exec |-> TRUE]

\* create_*_script: os.remove(script_name) with FileNotFoundError
\* suppressed, open(script_name, 'w'), the writes, os.chmod(script_name, rwx)
write_script(file, text) ==
    LET removed == IF file.exists THEN Absent ELSE file
        written == [exists |-> TRUE, text |-> Append(removed.text, text),
                    exec |-> removed.exec]
    IN [written EXCEPT !.exec = TRUE]

\* the contents of the script files after the scripts of made are written
RenderInto(texts, made) ==
    LET files == {made[i] : i \in DOMAIN made} IN
    [f \in (DOMAIN texts) \cup files |->
        IF f \in files
        THEN write_script(IF f \in DOMAIN texts THEN texts[f] ELSE Absent,
                          Rendered(f))
        ELSE texts[f]]

\* a job the scheduler accepted: the script, its dependency and its state
Job(unit, pfx, cmd) ==
    [unit |-> unit, pfx |-> pfx, script |-> cmd.script, mode |-> cmd.mode,
     dep |-> cmd.dep, state |-> "queued"]

\* variant: the threshold of create_scripts one stage higher
create_scripts_Mut(stg, unit, pfx) ==
    IF stg >= GET_DATA
    THEN << ScriptFile(working_directory_name(unit, pfx), get_data_job_script_name),
            ScriptFile(working_directory_name(unit, pfx), process_data_job_script_name),
            ScriptFile(working_directory_name(unit, pfx), clean_data_script_name),
            ScriptFile(working_directory_name(unit, pfx), put_data_script_name),
            ScriptFile(check_data_directory_name(unit, pfx), check_data_job_script_name),
            ScriptFile(mark_completion_directory_name(unit, pfx),
                       mark_no_longer_running_script_name) >>
    ELSE <<>>

\* create_scripts: the six scripts, in the order they are written
create_scripts(stg, unit, pfx) ==
    IF stg >= PREPARE_SCRIPTS
    THEN << ScriptFile(working_directory_name(unit, pfx), get_data_job_script_name),
            ScriptFile(working_directory_name(unit, pfx), process_data_job_script_name),
            ScriptFile(working_directory_name(unit, pfx), clean_data_script_name),
            ScriptFile(working_directory_name(unit, pfx), put_data_script_name),
            ScriptFile(check_data_directory_name(unit, pfx), check_data_job_script_name),
            ScriptFile(mark_completion_directory_name(unit, pfx),
                       mark_no_longer_running_script_name) >>
    ELSE <<>>

\* variant: the threshold of mark_running_status one stage higher
MarksQueued_Mut(stg) == stg > GET_DATA

\* mark_running_status acts only above PREPARE_SCRIPTS
MarksQueued(stg) == stg > PREPARE_SCRIPTS

\* the length of subject_list: __main__ handles the one unit of its arguments
ListLen == IF driver = "main" THEN 1 ELSE NumUnits

NoManifest == [has |-> FALSE, manifest |-> <<>>]
NotRead == [read |-> FALSE, clean |-> FALSE, text |-> ""]

\* variant: the test of clean_output_resource_first inverted
ShouldDelete_Mut(clean_output_resource_first) == ~clean_output_resource_first

\* submit_jobs: if self.clean_output_resource_first
ShouldDelete(clean_output_resource_first) == clean_output_resource_first

\* the concurrent driver processes, and the work unit they all handle
Procs == {1, 2}
RaceUnit == 1
\* a driver process that has not yet started on the unit
NewProc == [pc |-> "loop", gate |-> "unread", prefix |-> NoPrefix, wake |-> 0,
            made |-> {}, marked |-> FALSE, rendered |-> FALSE, jobs |-> {}]

\* ------------------------------------------------------------------ Init
Init ==
    /\ driver \in {"batch", "main"}
    /\ idx = FirstUnit
    /\ pc = "loop"
    /\ stage = PREPARE_SCRIPTS
    /\ clean = FALSE
    /\ prefix = NoPrefix
    /\ prior = None
    /\ submitted_jobs_list = <<>>
    /\ all_process_nos = NotSubmitted
    /\ config = [u \in Units |-> NotRead]
    /\ returned = [u \in Units |-> NoManifest]
    /\ runningStatus \in [Units -> {"idle", "queued"}]
    /\ fsDirs = {}
    /\ fsScripts = {}
    /\ clock = 0
    /\ nextJobId = FirstJobId
    /\ events = <<>>
    /\ procs = [p \in Procs |-> NewProc]
    /\ fsText = <<>>
    /\ queue = <<>>


\* ---------------------------------------------------------------- driver
\* variant: the failure swallowed and the list built so far returned
Raise_Mut_Return == pc' = "return"

\* variant: the failure caught and the mark-complete step still submitted
Raise_Mut_MarkComplete == pc' = "submit_no_longer_running"

\* variant: the failure ignored and the run carried on into
\* do_job_submissions
Raise_Mut_Ignore == pc' = "create_scripts"

\* variant: the failure caught and submit_jobs entered (again)
Raise_Mut_Proceed == pc' = "submit_jobs"

\* the uncaught exception: nothing in the drivers or the submitter catches
\* it, so the process ends
Raise == pc' = "aborted"

\* variant: the loop starts over at the end of the list
NextUnit_Mut ==
    IF idx < ListLen
    THEN /\ idx' = idx + 1
         /\ pc' = "loop"
    ELSE /\ idx' = FirstUnit
         /\ pc' = "loop"

\* the next iteration of "for subject in subject_list", or the end
NextUnit ==
    IF idx < ListLen
    THEN /\ idx' = idx + 1
         /\ pc' = "loop"
    ELSE /\ idx' = idx
         /\ pc' = "finished"

\* variant: the gate's answer ignored
SkipOrSubmit_Mut(queued) ==
    /\ pc' = "configure"
    /\ idx' = idx

\* the branch on the gate's answer: the notice and "continue" (batch) or
\* sys.exit() (__main__) when the unit is queued or running, otherwise on
\* to the submission
SkipOrSubmit(queued) ==
    IF queued
    THEN IF driver = "batch"
         THEN NextUnit
         ELSE /\ pc' = "finished"
              /\ idx' = idx
    ELSE /\ pc' = "configure"
         /\ idx' = idx

\* run_status_checker.get_queued_or_running(subject)
CheckGate ==
    /\ pc = "loop"
    /\ LET queued == runningStatus[idx] # "idle" IN
       /\ events' = Append(events,
              Ev("gate", idx, IF queued THEN "queued_or_running" ELSE "clear",
                 "none", None, TRUE, None))
       /\ SkipOrSubmit(queued)
    /\ UNCHANGED <<fsText, queue, procs, driver, stage, clean, prefix, prior, submitted_jobs_list,
                   all_process_nos, config, returned, runningStatus, fsDirs,
                   fsScripts, clock, nextJobId>>

\* variant: one submitter object kept for all units, what it memoised
\* included
NewSubmitterPrefix_Mut == prefix

\* OneSubjectJobSubmitter(...): __init__ sets
\* self._working_directory_name_prefix = None
NewSubmitterPrefix == NoPrefix

\* a new OneSubjectJobSubmitter, the unit's configuration read and the stage
\* text parsed, the setters called
Configure ==
    /\ pc = "configure"
    /\ \E c \in BOOLEAN, text \in StageTexts :
         LET s == from_string(text) IN
         /\ config' = [config EXCEPT
                          ![idx] = [read |-> TRUE, clean |-> c, text |-> text]]
         /\ events' = Append(events,
                Ev("from_string", idx, text, "none", None, s # None, None))
         /\ IF s = None
            THEN /\ Raise
                 /\ UNCHANGED <<stage, clean>>
            ELSE /\ stage' = s
                 /\ clean' = c
                 /\ pc' = "submit_jobs"
    /\ prefix' = NewSubmitterPrefix
    /\ UNCHANGED <<fsText, queue, procs, driver, idx, prior, submitted_jobs_list, all_process_nos,
                   returned, runningStatus, fsDirs, fsScripts, clock,
                   nextJobId>>

\* ----------------------------------------------------------- submit_jobs
\* time.sleep(5)
Sleep ==
    /\ pc = "submit_jobs"
    /\ clock' = clock + SleepSeconds
    /\ pc' = "makedirs_working"
    /\ UNCHANGED <<fsText, queue, procs, driver, idx, stage, clean, prefix, prior,
                   submitted_jobs_list, all_process_nos, config, returned,
                   runningStatus, fsDirs, fsScripts, nextJobId, events>>

\* os.makedirs(name): fails when the directory exists, and may fail for any
\* other reason of the filesystem
MakeDirs(here, suffix, next) ==
    /\ pc = here
    /\ LET pfx == working_directory_name_prefix(prefix, clock)
           d == Dir(idx, pfx, suffix) IN
       /\ prefix' = pfx
       /\ \E ok \in BOOLEAN :
            /\ ok => CanCreate(d, fsDirs)
            /\ events' = Append(events,
                   Ev("makedirs", idx, suffix, "none", None, ok, None))
            /\ IF ok
               THEN /\ fsDirs' = fsDirs \cup {d}
                    /\ pc' = next
               ELSE /\ Raise
                    /\ UNCHANGED fsDirs
    /\ UNCHANGED <<fsText, queue, procs, driver, idx, stage, clean, prior, submitted_jobs_list,
                   all_process_nos, config, returned, runningStatus, fsScripts,
                   clock, nextJobId>>

MakeWorkingDirectory == MakeDirs("makedirs_working", WorkingSuffix, "makedirs_check")
MakeCheckDataDirectory == MakeDirs("makedirs_check", CheckSuffix, "makedirs_mark")
MakeMarkCompletionDirectory == MakeDirs("makedirs_mark", MarkSuffix, "clean_output")

\* utils.delete_resource.delete_resource: returns when the resource was
\* deleted; a failure is fatal to the run (it raises)
delete_resource(ok) == IF ok THEN pc' = "create_scripts" ELSE Raise

\* if self.clean_output_resource_first: delete_resource.delete_resource(...)
CleanOutputResource ==
    /\ pc = "clean_output"
    /\ IF ShouldDelete(clean)
       THEN \E ok \in BOOLEAN :
              /\ events' = Append(events,
                     Ev("delete_resource", idx, "output_resource", "none",
                        None, ok, None))
              /\ delete_resource(ok)
       ELSE /\ pc' = "create_scripts"
            /\ UNCHANGED events
    /\ UNCHANGED <<fsText, queue, procs, driver, idx, stage, clean, prefix, prior,
                   submitted_jobs_list, all_process_nos, config, returned,
                   runningStatus, fsDirs, fsScripts, clock, nextJobId>>


\* ---------------------------------------------------- do_job_submissions
\* variant: the output resource deleted after the scripts are written
CreateScripts_Mut ==
    /\ pc = "create_scripts"
    /\ LET pfx == working_directory_name_prefix(prefix, clock)
           made == create_scripts(stage, idx, pfx) IN
       /\ prefix' = pfx
       /\ fsScripts' = fsScripts \cup {made[i] : i \in DOMAIN made}
       /\ fsText' = RenderInto(fsText, made)
       /\ events' = (events \o
              [i \in DOMAIN made |->
                  Ev("render", idx, made[i].name, "none", None, TRUE, None)])
              \o (IF ShouldDelete(clean)
                  THEN <<Ev("delete_resource", idx, "output_resource", "none",
                            None, TRUE, None)>>
                  ELSE <<>>)
    /\ submitted_jobs_list' = <<>>
    /\ prior' = None
    /\ all_process_nos' = NotSubmitted
    /\ pc' = "mark_running_status"
    /\ UNCHANGED <<queue, procs, driver, idx, stage, clean, config, returned,
                   runningStatus, fsDirs, clock, nextJobId>>

\* submitted_jobs_list = []; prior = None; self.create_scripts(stage): each
\* script is removed if present, written and made executable
CreateScripts ==
    /\ pc = "create_scripts"
    /\ LET pfx == working_directory_name_prefix(prefix, clock)
           made == create_scripts(stage, idx, pfx) IN
       /\ prefix' = pfx
       /\ fsScripts' = fsScripts \cup {made[i] : i \in DOMAIN made}
       /\ fsText' = RenderInto(fsText, made)
       /\ events' = events \o
              [i \in DOMAIN made |->
                  Ev("render", idx, made[i].name, "none", None, TRUE, None)]
    /\ submitted_jobs_list' = <<>>
    /\ prior' = None
    /\ all_process_nos' = NotSubmitted
    /\ pc' = "mark_running_status"
    /\ UNCHANGED <<queue, procs, driver, idx, stage, clean, config, returned,
                   runningStatus, fsDirs, clock, nextJobId>>

\* self.mark_running_status(stage): the external mark program with --queued,
\* run with check=True
MarkRunningStatus ==
    /\ pc = "mark_running_status"
    /\ IF MarksQueued(stage)
       THEN \E ok \in BOOLEAN :
              /\ events' = Append(events,
                     Ev("mark_queued", idx, "RunningStatus", "none", None,
                        ok, None))
              /\ IF ok
                 THEN /\ runningStatus' = [runningStatus EXCEPT ![idx] = "queued"]
                      /\ pc' = "submit_get_data"
                 ELSE /\ Raise
                      /\ UNCHANGED runningStatus
       ELSE /\ pc' = "submit_get_data"
            /\ UNCHANGED <<events, runningStatus>>
    /\ UNCHANGED <<fsText, queue, procs, driver, idx, stage, clean, prefix, prior,
                   submitted_jobs_list, all_process_nos, config, returned, fsDirs,
                   fsScripts, clock, nextJobId>>

\* variant: the entry put at the front of submitted_jobs_list
AfterStep_Mut(ret, label, appends, isProcess, next) ==
    /\ submitted_jobs_list' =
          IF appends
          THEN <<[label |-> label, jobs |-> ret.all, isNone |-> ret.isNone]>>
                  \o submitted_jobs_list
          ELSE submitted_jobs_list
    /\ prior' = CarryPrior(prior, ret)
    /\ all_process_nos' = IF isProcess THEN ret ELSE all_process_nos
    /\ pc' = next

\* what do_job_submissions does with the pair a step returned: the guarded
\* append to submitted_jobs_list and the update of prior
AfterStep(ret, label, appends, isProcess, next) ==
    /\ submitted_jobs_list' =
          IF appends
          THEN Append(submitted_jobs_list,
                      [label |-> label, jobs |-> ret.all, isNone |-> ret.isNone])
          ELSE submitted_jobs_list
    /\ prior' = CarryPrior(prior, ret)
    /\ all_process_nos' = IF isProcess THEN ret ELSE all_process_nos
    /\ pc' = next

\* one step of the walk: the submit_*_jobs call (subprocess.run of the qsub
\* command with check=True, the job number read from its output) and the
\* statements of do_job_submissions that follow it. appendsRun and
\* appendsSkip are the step's append test for a submitted and for a skipped
\* step
SubmitStep(here, next, cmd, label, appendsRun, appendsSkip, isProcess) ==
    /\ pc = here
    /\ IF cmd.run
       THEN \E ok \in BOOLEAN :
              /\ events' = Append(events,
                     Ev("qsub", idx, cmd.script, cmd.mode, cmd.dep, ok,
                        IF ok THEN nextJobId ELSE None))
              /\ IF ok
                 THEN /\ nextJobId' = nextJobId + 1
                      /\ queue' = Append(queue, Job(idx, prefix, cmd))
                      /\ AfterStep(Submitted(nextJobId), label, appendsRun,
                                   isProcess, next)
                 ELSE /\ Raise
                      /\ UNCHANGED <<nextJobId, submitted_jobs_list, prior,
                                     all_process_nos, queue>>
       ELSE /\ AfterStep(NotSubmitted, label, appendsSkip, isProcess, next)
            /\ UNCHANGED <<events, nextJobId, queue>>
    /\ UNCHANGED <<fsText, procs, driver, idx, stage, clean, prefix, config, returned,
                   runningStatus, fsDirs, fsScripts, clock>>

SubmitGetData ==
    SubmitStep("submit_get_data", "submit_process_data",
               submit_get_data_jobs(stage, prior), StageName(GET_DATA),
               AppendGetData(Submitted(nextJobId), all_process_nos),
               AppendGetData(NotSubmitted, all_process_nos), FALSE)

SubmitProcessData ==
    SubmitStep("submit_process_data", "submit_clean_data",
               submit_process_data_jobs(stage, prior), StageName(PROCESS_DATA),
               AppendProcessData(Submitted(nextJobId), Submitted(nextJobId)),
               AppendProcessData(NotSubmitted, NotSubmitted), TRUE)

SubmitCleanData ==
    SubmitStep("submit_clean_data", "submit_put_data",
               submit_clean_data_jobs(stage, prior), StageName(CLEAN_DATA),
               AppendCleanData(Submitted(nextJobId), all_process_nos),
               AppendCleanData(NotSubmitted, all_process_nos), FALSE)

SubmitPutData ==
    SubmitStep("submit_put_data", "submit_check",
               submit_put_data_jobs(stage, prior), StageName(PUT_DATA),
               AppendPutData(Submitted(nextJobId), all_process_nos),
               AppendPutData(NotSubmitted, all_process_nos), FALSE)

SubmitCheck ==
    SubmitStep("submit_check", "submit_no_longer_running",
               submit_check_jobs(stage, prior), StageName(CHECK_DATA),
               AppendCheckData(Submitted(nextJobId), all_process_nos),
               AppendCheckData(NotSubmitted, all_process_nos), FALSE)

SubmitNoLongerRunning ==
    SubmitStep("submit_no_longer_running", "return",
               submit_no_longer_running_jobs(stage, prior), CompleteLabel,
               AppendNoLongerRunning(Submitted(nextJobId), all_process_nos),
               AppendNoLongerRunning(NotSubmitted, all_process_nos), FALSE)

\* return submitted_jobs_list, through submit_jobs, to the driver, which
\* prints it and goes on
ReturnManifest ==
    /\ pc = "return"
    /\ returned' = [returned EXCEPT
                       ![idx] = [has |-> TRUE, manifest |-> submitted_jobs_list]]
    /\ NextUnit
    /\ UNCHANGED <<fsText, queue, procs, driver, stage, clean, prefix, prior, submitted_jobs_list,
                   all_process_nos, config, runningStatus, fsDirs, fsScripts,
                   clock, nextJobId, events>>

Next ==
    \/ CheckGate
    \/ Configure
    \/ Sleep
    \/ MakeWorkingDirectory
    \/ MakeCheckDataDirectory
    \/ MakeMarkCompletionDirectory
    \/ CleanOutputResource
    \/ CreateScripts
    \/ MarkRunningStatus
    \/ SubmitGetData
    \/ SubmitProcessData
    \/ SubmitCleanData
    \/ SubmitPutData
    \/ SubmitCheck
    \/ SubmitNoLongerRunning
    \/ ReturnManifest

Spec == Init /\ [][Next]_vars


\* ------------------------------------------- one instance, the clock running
\* the wall clock moves on by a second, at any moment
Tick ==
    /\ clock < MaxClock
    /\ clock' = clock + 1
    /\ UNCHANGED <<fsText, queue, procs, driver, idx, pc, stage, clean, prefix, prior,
                   submitted_jobs_list, all_process_nos, config, returned,
                   runningStatus, fsDirs, fsScripts, nextJobId, events>>

\* submit_jobs called once more on the submitter whose submit_jobs has
\* returned: the same object, so self._working_directory_name_prefix is kept
SubmitJobsAgain ==
    /\ pc = "finished"
    /\ returned[idx].has
    /\ \A i \in DOMAIN events : events[i].op # "submit_jobs"
    /\ events' = Append(events,
           Ev("submit_jobs", idx, "second call", "none", None, TRUE, None))
    /\ pc' = "submit_jobs"
    /\ UNCHANGED <<fsText, queue, procs, driver, idx, stage, clean, prefix, prior,
                   submitted_jobs_list, all_process_nos, config, returned,
                   runningStatus, fsDirs, fsScripts, clock, nextJobId>>

\* the single-subject driver, the clock running while it works
InitInstance ==
    /\ Init
    /\ driver = "main"

NextInstance ==
    \/ Next
    \/ Tick
    \/ SubmitJobsAgain

SpecInstance == InitInstance /\ [][NextInstance]_vars


\* -------------------------------------- scripts rendered over existing files
\* the render calls made so far
RenderCalls == {i \in DOMAIN events : events[i].op = "render"}

\* what a script file may hold when create_*_script finds it there: any
\* text, executable or not
OtherContents ==
    {[exists |-> TRUE, text |-> t, exec |-> x] :
        t \in {<<>>, <<"other text">>, <<"other text", "more text">>},
        x \in BOOLEAN}

\* a script file of the finished run is changed from outside, so that the
\* next create_*_script finds a file of other content
Scribble ==
    /\ pc = "finished"
    /\ events # <<>>
    /\ events[Len(events)].op # "scribble"
    /\ \E f \in DOMAIN fsText, c \in OtherContents :
         /\ fsText' = [fsText EXCEPT ![f] = c]
         /\ events' = Append(events,
                Ev("scribble", f.dir.unit, f.name, "none", None, TRUE, None))
    /\ UNCHANGED <<queue, procs, driver, idx, pc, stage, clean, prefix, prior,
                   submitted_jobs_list, all_process_nos, config, returned,
                   runningStatus, fsDirs, fsScripts, clock, nextJobId>>

\* create_scripts(stage) called once more on the submitter of the finished
\* run, its configuration unchanged
CreateScriptsAgain ==
    /\ pc = "finished"
    /\ returned[idx].has
    /\ LET made == create_scripts(stage, idx, prefix) IN
       /\ Cardinality(RenderCalls) < MaxRenders * Len(made)
       /\ fsScripts' = fsScripts \cup {made[i] : i \in DOMAIN made}
       /\ fsText' = RenderInto(fsText, made)
       /\ events' = events \o
              [i \in DOMAIN made |->
                  Ev("render", idx, made[i].name, "none", None, TRUE, None)]
    /\ UNCHANGED <<queue, procs, driver, idx, pc, stage, clean, prefix, prior,
                   submitted_jobs_list, all_process_nos, config, returned,
                   runningStatus, fsDirs, clock, nextJobId>>

NextRender ==
    \/ Next
    \/ Scribble
    \/ CreateScriptsAgain

SpecRender == InitInstance /\ [][NextRender]_vars


\* ------------------------------------------------ the scheduler at work
\* the states of a job that is over
Ended == {"done_ok", "done_fail", "cancelled"}

\* -W depend=afterok:dep is met when dep ended well, -W depend=afterany:dep
\* when dep ended in any way; a job without the option may start at once
Eligible(q, j) ==
    \/ q[j].dep = None
    \/ q[j].mode = "afterok" /\ q[q[j].dep].state = "done_ok"
    \/ q[j].mode = "afterany" /\ q[q[j].dep].state \in Ended

\* an afterok dependency that can no longer be met
Doomed(q, j) ==
    /\ q[j].dep # None
    /\ q[j].mode = "afterok"
    /\ q[q[j].dep].state \in {"done_fail", "cancelled"}

\* the scheduler runs a job whose dependency is met, to its end. The
\* mark-complete script marks the unit's running status done and removes the
\* mark-completion directory with all that is in it
JobEnds ==
    \E j \in DOMAIN queue :
        /\ queue[j].state = "queued"
        /\ Eligible(queue, j)
        /\ IF queue[j].script = mark_no_longer_running_script_name
           THEN LET d == mark_completion_directory_name(queue[j].unit,
                                                        queue[j].pfx) IN
                /\ queue' = [queue EXCEPT ![j].state = "done_ok"]
                /\ runningStatus' =
                       [runningStatus EXCEPT ![queue[j].unit] = "idle"]
                /\ fsDirs' = fsDirs \ {d}
                /\ fsScripts' = {f \in fsScripts : f.dir # d}
                /\ fsText' = [f \in {g \in DOMAIN fsText : g.dir # d} |->
                                 fsText[f]]
           ELSE /\ \E ok \in BOOLEAN :
                     queue' = [queue EXCEPT
                         ![j].state = IF ok THEN "done_ok" ELSE "done_fail"]
                /\ UNCHANGED <<runningStatus, fsDirs, fsScripts, fsText>>
        /\ UNCHANGED <<procs, driver, idx, pc, stage, clean, prefix, prior,
                       submitted_jobs_list, all_process_nos, config, returned,
                       clock, nextJobId, events>>

\* the scheduler gives up a job whose afterok dependency did not end well
JobCancelled ==
    \E j \in DOMAIN queue :
        /\ queue[j].state = "queued"
        /\ Doomed(queue, j)
        /\ queue' = [queue EXCEPT ![j].state = "cancelled"]
        /\ UNCHANGED <<fsText, procs, driver, idx, pc, stage, clean, prefix,
                       prior, submitted_jobs_list, all_process_nos, config,
                       returned, runningStatus, fsDirs, fsScripts, clock,
                       nextJobId, events>>

NextSched ==
    \/ Next
    \/ JobEnds
    \/ JobCancelled

\* the single-subject driver and the scheduler, which in the end runs or
\* gives up every job it holds
SpecSched ==
    /\ InitInstance
    /\ [][NextSched]_vars
    /\ WF_vars(JobEnds)
    /\ WF_vars(JobCancelled)


\* ------------------------------ two driver processes handling the same unit
\* what only the one-process driver above writes
seqVars == <<driver, idx, pc, stage, clean, prefix, prior, submitted_jobs_list,
             all_process_nos, returned, events, queue>>

\* the stage and the flag the processes read from the unit's configuration
RaceStage == from_string(config[RaceUnit].text)

\* variant: the gate reserves the unit: it marks it queued when it finds it
\* clear
RaceCheckGate_Mut(p) ==
    /\ procs[p].pc = "loop"
    /\ LET queued == runningStatus[RaceUnit] # "idle" IN
       /\ procs' = [procs EXCEPT
              ![p].gate = IF queued THEN "queued_or_running" ELSE "clear",
              ![p].pc = IF queued THEN "finished" ELSE "configure"]
       /\ runningStatus' = [runningStatus EXCEPT ![RaceUnit] = "queued"]
    /\ UNCHANGED <<fsText, seqVars, config, fsDirs, fsScripts, clock, nextJobId>>

\* if run_status_checker.get_queued_or_running(subject): ... continue
RaceCheckGate(p) ==
    /\ procs[p].pc = "loop"
    /\ LET queued == runningStatus[RaceUnit] # "idle" IN
       procs' = [procs EXCEPT
              ![p].gate = IF queued THEN "queued_or_running" ELSE "clear",
              ![p].pc = IF queued THEN "finished" ELSE "configure"]
    /\ UNCHANGED <<fsText, seqVars, config, runningStatus, fsDirs, fsScripts, clock,
                   nextJobId>>

\* a new submitter; the unit's configuration, the same for every process
\* that reads it, and the stage text parsed
RaceConfigure(p) ==
    /\ procs[p].pc = "configure"
    /\ \E c \in BOOLEAN, text \in StageTexts :
         /\ config[RaceUnit].read =>
                (c = config[RaceUnit].clean /\ text = config[RaceUnit].text)
         /\ config' = [config EXCEPT
                          ![RaceUnit] = [read |-> TRUE, clean |-> c, text |-> text]]
         /\ procs' = [procs EXCEPT
                ![p].prefix = NoPrefix,
                ![p].pc = IF from_string(text) = None
                          THEN "aborted" ELSE "submit_jobs"]
    /\ UNCHANGED <<fsText, seqVars, runningStatus, fsDirs, fsScripts, clock, nextJobId>>

\* time.sleep(5): the call ...
RaceSleep(p) ==
    /\ procs[p].pc = "submit_jobs"
    /\ procs' = [procs EXCEPT ![p].wake = clock + SleepSeconds,
                              ![p].pc = "sleeping"]
    /\ UNCHANGED <<fsText, seqVars, config, runningStatus, fsDirs, fsScripts, clock,
                   nextJobId>>

\* ... and its return, five seconds later or more
RaceWake(p) ==
    /\ procs[p].pc = "sleeping"
    /\ clock >= procs[p].wake
    /\ procs' = [procs EXCEPT ![p].pc = "makedirs_working"]
    /\ UNCHANGED <<fsText, seqVars, config, runningStatus, fsDirs, fsScripts, clock,
                   nextJobId>>

\* os.makedirs(name), by process p
RaceMakeDirs(p, here, suffix, next) ==
    /\ procs[p].pc = here
    /\ LET pfx == working_directory_name_prefix(procs[p].prefix, clock)
           d == Dir(RaceUnit, pfx, suffix) IN
       \E ok \in BOOLEAN :
            /\ ok => CanCreate(d, fsDirs)
            /\ fsDirs' = IF ok THEN fsDirs \cup {d} ELSE fsDirs
            /\ procs' = [procs EXCEPT
                   ![p].prefix = pfx,
                   ![p].made = IF ok THEN @ \cup {suffix} ELSE @,
                   ![p].pc = IF ok THEN next ELSE "aborted"]
    /\ UNCHANGED <<fsText, seqVars, config, runningStatus, fsScripts, clock, nextJobId>>

RaceMakeWorkingDirectory(p) ==
    RaceMakeDirs(p, "makedirs_working", WorkingSuffix, "makedirs_check")
RaceMakeCheckDataDirectory(p) ==
    RaceMakeDirs(p, "makedirs_check", CheckSuffix, "makedirs_mark")
RaceMakeMarkCompletionDirectory(p) ==
    RaceMakeDirs(p, "makedirs_mark", MarkSuffix, "clean_output")

\* if self.clean_output_resource_first: delete_resource.delete_resource(...)
RaceCleanOutputResource(p) ==
    /\ procs[p].pc = "clean_output"
    /\ \E ok \in BOOLEAN :
         /\ ~ShouldDelete(config[RaceUnit].clean) => ok
         /\ procs' = [procs EXCEPT
                ![p].pc = IF ok THEN "create_scripts" ELSE "aborted"]
    /\ UNCHANGED <<fsText, seqVars, config, runningStatus, fsDirs, fsScripts, clock,
                   nextJobId>>

\* self.create_scripts(stage), by process p: a script that is there is
\* removed and written anew
RaceCreateScripts(p) ==
    /\ procs[p].pc = "create_scripts"
    /\ LET pfx == working_directory_name_prefix(procs[p].prefix, clock)
           made == create_scripts(RaceStage, RaceUnit, pfx) IN
       /\ fsScripts' = fsScripts \cup {made[i] : i \in DOMAIN made}
       /\ fsText' = RenderInto(fsText, made)
       /\ procs' = [procs EXCEPT ![p].prefix = pfx,
                                 ![p].rendered = TRUE,
                                 ![p].pc = "mark_running_status"]
    /\ UNCHANGED <<seqVars, config, runningStatus, fsDirs, clock, nextJobId>>

\* self.mark_running_status(stage), by process p
RaceMarkRunningStatus(p) ==
    /\ procs[p].pc = "mark_running_status"
    /\ \E ok \in BOOLEAN :
         /\ ~MarksQueued(RaceStage) => ok
         /\ procs' = [procs EXCEPT
                ![p].marked = MarksQueued(RaceStage) /\ ok,
                ![p].pc = IF ok THEN "submit" ELSE "aborted"]
         /\ runningStatus' =
                IF MarksQueued(RaceStage) /\ ok
                THEN [runningStatus EXCEPT ![RaceUnit] = "queued"]
                ELSE runningStatus
    /\ UNCHANGED <<fsText, seqVars, config, fsDirs, fsScripts, clock, nextJobId>>

\* the six steps of do_job_submissions, by process p, up to the first qsub
\* that fails: the jobs the scheduler accepted
RaceSubmitSteps(p) ==
    /\ procs[p].pc = "submit"
    /\ LET cmds == << submit_get_data_jobs(RaceStage, None),
                      submit_process_data_jobs(RaceStage, None),
                      submit_clean_data_jobs(RaceStage, None),
                      submit_put_data_jobs(RaceStage, None),
                      submit_check_jobs(RaceStage, None),
                      submit_no_longer_running_jobs(RaceStage, None) >>
           n == Cardinality({k \in DOMAIN cmds : cmds[k].run}) IN
       \E got \in 0..n :
            /\ procs' = [procs EXCEPT
                   ![p].jobs = nextJobId .. (nextJobId + got - 1),
                   ![p].pc = IF got = n THEN "finished" ELSE "aborted"]
            /\ nextJobId' = nextJobId + got
    /\ UNCHANGED <<fsText, seqVars, config, runningStatus, fsDirs, fsScripts, clock>>

InitRace ==
    /\ Init
    /\ driver = "batch"

NextRace ==
    \/ \E p \in Procs : RaceCheckGate(p)
    \/ \E p \in Procs : RaceConfigure(p)
    \/ \E p \in Procs : RaceSleep(p)
    \/ \E p \in Procs : RaceWake(p)
    \/ \E p \in Procs : RaceMakeWorkingDirectory(p)
    \/ \E p \in Procs : RaceMakeCheckDataDirectory(p)
    \/ \E p \in Procs : RaceMakeMarkCompletionDirectory(p)
    \/ \E p \in Procs : RaceCleanOutputResource(p)
    \/ \E p \in Procs : RaceCreateScripts(p)
    \/ \E p \in Procs : RaceMarkRunningStatus(p)
    \/ \E p \in Procs : RaceSubmitSteps(p)
    \/ Tick

SpecRace == InitRace /\ [][NextRace]_vars


\* ============================================================ properties
\* the requested stage of a unit whose configuration has been read
StageOf(u) == from_string(config[u].text)

\* the positions in events of the scheduler calls made for unit u
QsubsOf(u) == {i \in DOMAIN events : events[i].op = "qsub" /\ events[i].unit = u}

\* the script a stage step submits
StepScript(X) ==
    CASE X = GET_DATA -> get_data_job_script_name
      [] X = PROCESS_DATA -> process_data_job_script_name
      [] X = CLEAN_DATA -> clean_data_script_name
      [] X = PUT_DATA -> put_data_script_name
      [] X = CHECK_DATA -> check_data_job_script_name

StageStepSet == {StageSteps[k] : k \in DOMAIN StageSteps}

\* the scheduler was called for step X of unit u
Called(u, X) == \E i \in QsubsOf(u) : events[i].arg = StepScript(X)

\* the manifest m has an entry labelled l
HasEntry(m, l) == \E k \in DOMAIN m : m[k].label = l

\* how far the walk of do_job_submissions has come: the number of steps
\* whose submit_*_jobs call has returned
StepsDone ==
    CASE pc = "submit_process_data" -> 1
      [] pc = "submit_clean_data" -> 2
      [] pc = "submit_put_data" -> 3
      [] pc = "submit_check" -> 4
      [] pc = "submit_no_longer_running" -> 5
      [] pc = "return" -> 6
      [] OTHER -> 0

\* step X of the current unit is behind the walk
Passed(X) == StepsDone >= X - 1

\* C1: in a run where every scheduler call succeeds, the returned manifest
\* has an entry labelled X exactly if the requested stage is >= X, for each
\* of the five stage steps X, and it has the mark-complete entry
C1_ManifestEntryIffStage ==
    \A u \in Units :
        returned[u].has =>
            /\ \A X \in StageStepSet :
                   HasEntry(returned[u].manifest, StageName(X)) <=> StageOf(u) >= X
            /\ HasEntry(returned[u].manifest, CompleteLabel)

\* C2: a stage step calls the scheduler only if the requested stage is >= the
\* step's stage, and once the walk is past a step (or the run has returned)
\* the scheduler was called for it exactly if the requested stage is >= it
C2_SubmitIffStage ==
    /\ \A u \in Units : \A X \in StageStepSet :
           Called(u, X) => StageOf(u) >= X
    /\ \A u \in Units : \A X \in StageStepSet :
           returned[u].has => (Called(u, X) <=> StageOf(u) >= X)
    /\ \A X \in StageStepSet :
           Passed(X) => (Called(idx, X) <=> stage >= X)

\* C2 witness: a run for stage CLEAN_DATA has returned: three steps called
\* the scheduler, PUT_DATA and CHECK_DATA did not
C2_Witness ==
    \E u \in Units :
        /\ returned[u].has
        /\ StageOf(u) = CLEAN_DATA
        /\ Called(u, GET_DATA) /\ Called(u, PROCESS_DATA) /\ Called(u, CLEAN_DATA)
        /\ ~Called(u, PUT_DATA) /\ ~Called(u, CHECK_DATA)

\* the job numbers the scheduler returned for the submissions of script sc
\* of unit u, in submission order
JobsOf(u, sc) ==
    LET F[n \in 0..Len(events)] ==
            IF n = 0 THEN <<>>
            ELSE IF events[n].op = "qsub" /\ events[n].unit = u
                    /\ events[n].arg = sc /\ events[n].ok
                 THEN Append(F[n - 1], events[n].job)
                 ELSE F[n - 1]
    IN F[Len(events)]

\* the script behind a manifest label
LabelScript(l) ==
    IF l = CompleteLabel THEN mark_no_longer_running_script_name
    ELSE StepScript(CHOOSE X \in StageStepSet : StageName(X) = l)

\* every entry of manifest m of unit u carries the job numbers returned for
\* its stage, and at least one
EntriesAreSubmissions(u, m) ==
    \A k \in DOMAIN m :
        /\ ~m[k].isNone
        /\ Len(m[k].jobs) > 0
        /\ m[k].jobs = JobsOf(u, LabelScript(m[k].label))

\* C3: every manifest entry stands for a stage submitted in this run: its
\* job-id list is non-empty and is exactly the job ids the scheduler
\* returned for that stage
C3_EntriesAreSubmitted ==
    \A u \in Units : returned[u].has => EntriesAreSubmissions(u, returned[u].manifest)


\* the scheduler calls for the stage steps of unit u (all but mark-complete)
StageQsubsOf(u) ==
    {i \in QsubsOf(u) : events[i].arg # mark_no_longer_running_script_name}

\* the scheduler calls of unit u made before position i
EarlierQsubs(u, i) == {j \in QsubsOf(u) : j < i}

Max(S) == CHOOSE x \in S : \A y \in S : y <= x

\* the job number returned by the latest scheduler call of unit u, if any
LastJob(u) ==
    IF QsubsOf(u) = {} THEN None ELSE events[Max(QsubsOf(u))].job

InWalk == pc = "submit_get_data" \/ StepsDone > 0

\* C4: the first submitted stage job has no dependency, every other one has
\* an afterok dependency on the job id returned by the submission just
\* before it, and the prior carried through the walk is the job id of the
\* latest submission (unchanged by a skipped step)
C4_DependencyWiring ==
    /\ \A u \in Units : \A i \in StageQsubsOf(u) :
           IF EarlierQsubs(u, i) = {}
           THEN events[i].mode = "none" /\ events[i].dep = None
           ELSE LET p == Max(EarlierQsubs(u, i)) IN
                /\ events[p].ok
                /\ events[i].mode = "afterok"
                /\ events[i].dep = events[p].job
    /\ InWalk => prior = LastJob(idx)

\* C4 witness: the put-data job was submitted, depending on an earlier job
C4_Witness ==
    \E u \in Units : \E i \in StageQsubsOf(u) :
        /\ events[i].arg = put_data_script_name
        /\ events[i].ok
        /\ events[i].dep # None

\* C5 as stated: the mark-complete submission always uses afterany and every
\* other submission uses afterok
C5_Original ==
    \A i \in DOMAIN events :
        events[i].op = "qsub" =>
            IF events[i].arg = mark_no_longer_running_script_name
            THEN events[i].mode = "afterany"
            ELSE events[i].mode = "afterok"

\* C5 amended: the mark-complete submission uses afterany whenever it
\* declares a dependency, which is for every requested stage above
\* PREPARE_SCRIPTS (at PREPARE_SCRIPTS it declares none); a stage step uses
\* afterok whenever it declares a dependency (the first submitted step
\* declares none); no stage step uses afterany, mark-complete never afterok
C5_DependencyModes ==
    \A u \in Units : \A i \in QsubsOf(u) :
        IF events[i].arg = mark_no_longer_running_script_name
        THEN /\ events[i].mode \in {"afterany", "none"}
             /\ events[i].mode = "none" <=> StageOf(u) = PREPARE_SCRIPTS
             /\ events[i].mode = "none" <=> events[i].dep = None
        ELSE /\ events[i].mode \in {"afterok", "none"}
             /\ events[i].mode = "none" <=> EarlierQsubs(u, i) = {}
             /\ events[i].mode = "none" <=> events[i].dep = None

\* C5 witness: a mark-complete job submitted with afterany after the check
\* job, which was submitted with afterok
C5_Witness ==
    \E u \in Units : \E i, j \in QsubsOf(u) :
        /\ events[i].arg = mark_no_longer_running_script_name
        /\ events[i].mode = "afterany"
        /\ events[j].arg = check_data_job_script_name
        /\ events[j].mode = "afterok"
        /\ events[i].dep = events[j].job

\* a scheduler call that failed
FailedQsub(i) == events[i].op = "qsub" /\ ~events[i].ok

\* C6: a failed scheduler submission ends the run there: it is the last call
\* made (no later step, no retry), the process has stopped on the exception
\* and no manifest was returned for the unit
C6_FailedSubmissionAborts ==
    \A i \in DOMAIN events :
        FailedQsub(i) =>
            /\ i = Len(events)
            /\ pc = "aborted"
            /\ ~returned[events[i].unit].has

\* C6 witness: the process-data submission failed after the get-data
\* submission had succeeded
C6_Witness ==
    \E i \in DOMAIN events :
        /\ FailedQsub(i)
        /\ events[i].arg = process_data_job_script_name
        /\ \E j \in EarlierQsubs(events[i].unit, i) : events[j].ok

\* C7 as stated: after a failed stage-step submission the mark-complete step
\* is still submitted
C7_Original ==
    \A i \in DOMAIN events :
        (FailedQsub(i) /\ events[i].arg # mark_no_longer_running_script_name
            /\ pc = "aborted") =>
            \E j \in QsubsOf(events[i].unit) :
                events[j].arg = mark_no_longer_running_script_name

\* C7 amended: after a failed stage-step submission no later step is
\* attempted and the mark-complete step is not submitted either; the unit,
\* marked queued at the start of the run, stays marked queued
C7_FailedStepLeavesQueued ==
    \A i \in DOMAIN events :
        (FailedQsub(i) /\ events[i].arg # mark_no_longer_running_script_name) =>
            LET u == events[i].unit IN
            /\ i = Len(events)
            /\ \A j \in QsubsOf(u) :
                   events[j].arg # mark_no_longer_running_script_name
            /\ \E j \in 1..(i - 1) :
                   /\ events[j].op = "mark_queued"
                   /\ events[j].unit = u
                   /\ events[j].ok
            /\ runningStatus[u] = "queued"

\* C7 witness: the clean-data submission of a CHECK_DATA run failed
C7_Witness ==
    \E i \in DOMAIN events :
        /\ FailedQsub(i)
        /\ events[i].arg = clean_data_script_name
        /\ StageOf(events[i].unit) = CHECK_DATA
        /\ runningStatus[events[i].unit] = "queued"

\* the gate was consulted for unit u
GateChecked(u) ==
    \E i \in DOMAIN events : events[i].op = "gate" /\ events[i].unit = u

\* C8: in the batch driver a failure while submitting one unit does not
\* block the others: when the driver has stopped, every unit of the list
\* was gate-checked
C8_FailureDoesNotBlockOthers ==
    (driver = "batch" /\ pc \in {"aborted", "finished"}) =>
        \A u \in Units : GateChecked(u)

\* C9: for a unit the gate reports queued or running nothing is done: no
\* configuration, no directory, no script, no status marking, no delete and
\* no scheduler call, no manifest; the batch driver goes on with the next
\* unit, __main__ exits
C9_GatedUnitNotSubmitted ==
    \A i \in DOMAIN events :
        (events[i].op = "gate" /\ events[i].arg = "queued_or_running") =>
            LET u == events[i].unit IN
            /\ \A j \in DOMAIN events : j # i => events[j].unit # u
            /\ ~config[u].read
            /\ ~returned[u].has
            /\ \A d \in fsDirs : d.unit # u
            /\ \A f \in fsScripts : f.dir.unit # u
            /\ runningStatus[u] = "queued"
            /\ driver = "main" => pc = "finished"
            /\ (driver = "batch" /\ u = NumUnits) => pc = "finished"
            /\ (driver = "batch" /\ u < NumUnits) =>
                  /\ idx > u
                  /\ i < Len(events) =>
                        /\ events[i + 1].op = "gate"
                        /\ events[i + 1].unit = u + 1

\* C9 witness: the batch driver skipped the first unit at the gate and
\* submitted the second
C9_Witness ==
    /\ driver = "batch"
    /\ \E i \in DOMAIN events :
           /\ events[i].op = "gate"
           /\ events[i].arg = "queued_or_running"
           /\ events[i].unit = 1
    /\ returned[2].has

\* C10: with cleanOutputFirst set, the output resource is deleted before any
\* job of the run is submitted; with it not set, nothing is deleted
C10_DeleteBeforeSubmit ==
    /\ \A u \in Units : \A i \in QsubsOf(u) :
           config[u].clean =>
               \E j \in 1..(i - 1) :
                   /\ events[j].op = "delete_resource"
                   /\ events[j].unit = u
                   /\ events[j].ok
    /\ \A j \in DOMAIN events :
           events[j].op = "delete_resource" => config[events[j].unit].clean

\* C10 witness: a run with cleanOutputFirst set has submitted a job, and a
\* run with it not set has too
C10_Witness ==
    \E u, v \in Units :
        /\ config[u].clean /\ QsubsOf(u) # {}
        /\ config[v].read /\ ~config[v].clean /\ QsubsOf(v) # {}


\* the calls of kind op made for unit u
OpsOf(u, op) ==
    {i \in DOMAIN events : events[i].op = op /\ events[i].unit = u}

\* C11: with cleanOutputFirst set, a failed resource delete is fatal: it is
\* the last call of the run, the unit is not marked queued, no job is
\* submitted and no manifest is returned
C11_DeleteFailureFatal ==
    \A i \in DOMAIN events :
        (events[i].op = "delete_resource" /\ ~events[i].ok) =>
            LET u == events[i].unit IN
            /\ config[u].clean
            /\ i = Len(events)
            /\ pc = "aborted"
            /\ OpsOf(u, "mark_queued") = {}
            /\ QsubsOf(u) = {}
            /\ ~returned[u].has

\* C11 witness: the delete of a unit's output resource failed after its
\* three directories were made
C11_Witness ==
    \E i \in DOMAIN events :
        /\ events[i].op = "delete_resource"
        /\ ~events[i].ok
        /\ Cardinality(OpsOf(events[i].unit, "makedirs")) = 3

\* the unit was marked queued, successfully, before position i
MarkedQueuedBefore(u, i) ==
    \E j \in OpsOf(u, "mark_queued") : j < i /\ events[j].ok

\* C12 as stated: for every requested stage the unit is marked queued
\* before the first scheduler submission of the run
C12_Original ==
    \A u \in Units : \A i \in QsubsOf(u) : MarkedQueuedBefore(u, i)

\* C12 amended: for every requested stage above PREPARE_SCRIPTS the unit is
\* marked queued before the first scheduler submission; at PREPARE_SCRIPTS
\* it is never marked queued, and the only submission is the mark-complete
\* job
C12_QueuedBeforeSubmission ==
    \A u \in Units : \A i \in QsubsOf(u) :
        IF StageOf(u) > PREPARE_SCRIPTS
        THEN MarkedQueuedBefore(u, i)
        ELSE /\ OpsOf(u, "mark_queued") = {}
             /\ events[i].arg = mark_no_longer_running_script_name

\* C12 witness: a GET_DATA run has submitted its get-data job after the
\* unit was marked queued
C12_Witness ==
    \E u \in Units : \E i \in QsubsOf(u) :
        /\ StageOf(u) = GET_DATA
        /\ events[i].arg = get_data_job_script_name
        /\ MarkedQueuedBefore(u, i)


\* C15: a failed creation of one of the three workspace directories is
\* fatal and not retried: it is the last call of the run and the only
\* failed creation, no resource is deleted, no script rendered, the unit is
\* not marked queued, no job is submitted and no manifest returned
C15_MakedirsFailureFatal ==
    \A i \in DOMAIN events :
        (events[i].op = "makedirs" /\ ~events[i].ok) =>
            LET u == events[i].unit IN
            /\ i = Len(events)
            /\ pc = "aborted"
            /\ \A j \in OpsOf(u, "makedirs") : j # i => events[j].ok
            /\ OpsOf(u, "delete_resource") = {}
            /\ OpsOf(u, "render") = {}
            /\ \A f \in fsScripts : f.dir.unit # u
            /\ OpsOf(u, "mark_queued") = {}
            /\ QsubsOf(u) = {}
            /\ ~returned[u].has

\* C15 witness: the check-data directory could not be made after the
\* working directory had been
C15_Witness ==
    \E i \in DOMAIN events :
        /\ events[i].op = "makedirs"
        /\ ~events[i].ok
        /\ events[i].arg = CheckSuffix
        /\ \E d \in fsDirs : d.unit = events[i].unit /\ d.suffix = WorkingSuffix

\* C18: every dependency a submission names is a job id the scheduler
\* returned for an earlier, successful submission of the same run
C18_DependencyAlreadyAccepted ==
    \A u \in Units : \A i \in QsubsOf(u) :
        events[i].dep # None =>
            \E j \in EarlierQsubs(u, i) :
                /\ events[j].ok
                /\ events[j].job = events[i].dep

\* C18 witness: the clean-data job was submitted with a dependency
C18_Witness ==
    \E u \in Units : \E i \in QsubsOf(u) :
        /\ events[i].arg = clean_data_script_name
        /\ events[i].ok
        /\ events[i].dep # None

\* the position of a script, and of a manifest label, in the fixed sequence
ScriptRank(sc) ==
    CASE sc = get_data_job_script_name -> 1
      [] sc = process_data_job_script_name -> 2
      [] sc = clean_data_script_name -> 3
      [] sc = put_data_script_name -> 4
      [] sc = check_data_job_script_name -> 5
      [] sc = mark_no_longer_running_script_name -> 6
LabelRank(l) == ScriptRank(LabelScript(l))

\* the entries of manifest m follow the fixed sequence
InStageOrder(m) ==
    \A k, l \in DOMAIN m : k < l => LabelRank(m[k].label) < LabelRank(m[l].label)

\* C19: the submissions of a run follow the fixed sequence GET_DATA,
\* PROCESS_DATA, CLEAN_DATA, PUT_DATA, CHECK_DATA, never backwards, with the
\* mark-complete submission last; the manifest lists its entries in the
\* same sequence, the mark-complete entry last
C19_FixedOrder ==
    /\ \A u \in Units : \A i, j \in QsubsOf(u) :
           i < j => ScriptRank(events[i].arg) < ScriptRank(events[j].arg)
    /\ InStageOrder(submitted_jobs_list)
    /\ \A u \in Units :
           returned[u].has =>
               LET m == returned[u].manifest IN
               /\ InStageOrder(m)
               /\ Len(m) > 0
               /\ m[Len(m)].label = CompleteLabel
               /\ QsubsOf(u) # {}
               /\ events[Max(QsubsOf(u))].arg = mark_no_longer_running_script_name

\* C19 witness: a PUT_DATA run has returned: four stage submissions, then
\* the mark-complete one
C19_Witness ==
    \E u \in Units :
        /\ returned[u].has
        /\ StageOf(u) = PUT_DATA
        /\ Cardinality(QsubsOf(u)) = 5
        /\ Len(returned[u].manifest) = 5

\* C20: a stage text that names no stage is fatal before anything is done
\* for the unit: the failed parse is the last call, no directory was made,
\* no script rendered, no status marked, no job submitted
C20_StageParseFatal ==
    \A i \in DOMAIN events :
        (events[i].op = "from_string" /\ ~events[i].ok) =>
            LET u == events[i].unit IN
            /\ i = Len(events)
            /\ pc = "aborted"
            /\ OpsOf(u, "makedirs") = {}
            /\ \A d \in fsDirs : d.unit # u
            /\ OpsOf(u, "render") = {}
            /\ \A f \in fsScripts : f.dir.unit # u
            /\ OpsOf(u, "mark_queued") = {}
            /\ OpsOf(u, "delete_resource") = {}
            /\ QsubsOf(u) = {}
            /\ ~returned[u].has

\* C20 witness: the stage text of a unit named no stage
C20_Witness ==
    \E i \in DOMAIN events :
        /\ events[i].op = "from_string"
        /\ ~events[i].ok
        /\ config[events[i].unit].text = "NOT_A_STAGE"
        /\ pc = "aborted"


\* the directories of unit u that exist, and the scripts written for it
DirsOf(u) == {d \in fsDirs : d.unit = u}
ScriptsOf(u) == {f \in fsScripts : f.dir.unit = u}

\* the position in events of the second call of submit_jobs, if any
SecondCalls == {i \in DOMAIN events : events[i].op = "submit_jobs"}

\* C13: the prefix is computed once per instance: whatever the clock does
\* and however many reads there are, all directories made for the unit carry
\* one and the same prefix, it is the stored one, and every rendered script
\* lies in a directory that submit_jobs created
C13_PrefixComputedOnce ==
    \A u \in Units :
        /\ \A d, e \in DirsOf(u) : d.ts = e.ts
        /\ \A f \in ScriptsOf(u) : f.dir \in fsDirs
        /\ (u = idx /\ DirsOf(u) # {}) => \A d \in DirsOf(u) : d.ts = prefix

\* C13 witness: the scripts have been rendered, and the clock has moved on
\* since the prefix was first read
C13_Witness ==
    /\ pc = "mark_running_status"
    /\ ScriptsOf(idx) # {}
    /\ Cardinality(DirsOf(idx)) = 3
    /\ clock > prefix

\* C14 as stated: a second call of submit_jobs works in a new workspace:
\* once it has read the working directory's name, no directory of that
\* prefix is there from before
C14_Original ==
    \A i \in SecondCalls :
        (Len(events) > i /\ events[Len(events)].op = "makedirs"
            /\ events[Len(events)].arg = WorkingSuffix) =>
                mark_completion_directory_name(idx, prefix) \notin fsDirs

\* C14: a second call of submit_jobs on the same instance reads the stored
\* prefix again: while the directories of the first call exist it fails at
\* the first makedirs, and renders and submits nothing more
C14_SecondCallFails ==
    \A i \in SecondCalls :
        LET u == events[i].unit IN
        /\ \A d \in DirsOf(u) : d.ts = prefix
        /\ \A j \in DOMAIN events :
               j > i => /\ j = i + 1
                        /\ events[j].op = "makedirs"
                        /\ events[j].arg = WorkingSuffix
                        /\ ~events[j].ok
                        /\ pc = "aborted"
        /\ Cardinality({j \in QsubsOf(u) :
               events[j].arg = mark_no_longer_running_script_name}) = 1

\* C14 witness: the second call has failed at its first makedirs, five
\* seconds or more after the prefix was computed
C14_Witness ==
    \E i \in SecondCalls :
        /\ Len(events) = i + 1
        /\ events[i + 1].op = "makedirs"
        /\ ~events[i + 1].ok
        /\ pc = "aborted"
        /\ clock >= prefix + SleepSeconds


\* two processes whose prefix was computed in the same whole second
SamePrefix(p, q) ==
    /\ p # q
    /\ procs[p].prefix # NoPrefix
    /\ procs[p].prefix = procs[q].prefix

\* process p made all three directories of its workspace
PastCreation(p) == procs[p].made = {WorkingSuffix, CheckSuffix, MarkSuffix}

\* C16: of two orchestrations of one identity whose prefix was computed in
\* the same second at most one gets past directory creation: the other made
\* no directory, rendered no script and submitted no job
C16_NoSharedWorkspace ==
    \A p, q \in Procs :
        SamePrefix(p, q) =>
            /\ ~(PastCreation(p) /\ PastCreation(q))
            /\ procs[p].made \cap procs[q].made = {}
            /\ procs[p].made = {} \/ procs[q].made = {}
            /\ ~(procs[p].rendered /\ procs[q].rendered)
            /\ procs[p].jobs = {} \/ procs[q].jobs = {}

\* C16 witness: with the same prefix, one process has submitted its jobs and
\* the other has failed at its first directory
C16_Witness ==
    \E p, q \in Procs :
        /\ SamePrefix(p, q)
        /\ PastCreation(p)
        /\ procs[p].rendered
        /\ procs[p].jobs # {}
        /\ procs[q].pc = "aborted"
        /\ procs[q].made = {}

\* C17: the gate is a read and reserves nothing: while no process has marked
\* the unit queued, a unit that was read as clear is still clear for the
\* next reader; and a process renders and submits only after it read the
\* gate as clear
C17_GateIsAdvisory ==
    /\ ((\E p \in Procs : procs[p].gate = "clear")
            /\ (\A p \in Procs : ~procs[p].marked))
           => runningStatus[RaceUnit] = "idle"
    /\ \A p \in Procs :
           (procs[p].rendered \/ procs[p].jobs # {}) => procs[p].gate = "clear"

\* C17 witness: both processes read the gate as clear, both marked the unit
\* queued and both submitted a pipeline of jobs for it
C17_Witness ==
    \A p \in Procs :
        /\ procs[p].gate = "clear"
        /\ procs[p].marked
        /\ procs[p].pc = "finished"
        /\ Cardinality(procs[p].jobs) >= 2


\* the place of a call in the steps of submit_jobs
PhaseRank(op) ==
    CASE op = "makedirs" -> 1
      [] op = "delete_resource" -> 2
      [] op = "render" -> 3
      [] op = "mark_queued" -> 4
      [] op = "qsub" -> 5
      [] OTHER -> 0

\* C23 as stated: the output resource is deleted after the scripts are
\* rendered and the unit is marked queued
C23_Original ==
    \A u \in Units : \A i \in OpsOf(u, "delete_resource") :
        /\ \E j \in OpsOf(u, "render") : j < i
        /\ StageOf(u) > PREPARE_SCRIPTS =>
               \E j \in OpsOf(u, "mark_queued") : j < i

\* C23: submit_jobs makes the three directories, then deletes the output
\* resource (if asked to), then renders the scripts, then marks the unit
\* queued, then walks the stage sequence; the mark-complete submission ends
\* a run that returns
C23_StepOrder ==
    \A u \in Units :
        /\ \A i, j \in DOMAIN events :
               (i < j /\ events[i].unit = u /\ events[j].unit = u) =>
                   PhaseRank(events[i].op) <= PhaseRank(events[j].op)
        /\ returned[u].has =>
               /\ QsubsOf(u) # {}
               /\ events[Max(QsubsOf(u))].arg = mark_no_longer_running_script_name

\* C23 witness: a run that deleted the resource, rendered, marked the unit
\* queued and submitted
C23_Witness ==
    \E u \in Units :
        /\ returned[u].has
        /\ OpsOf(u, "delete_resource") # {}
        /\ OpsOf(u, "render") # {}
        /\ OpsOf(u, "mark_queued") # {}
        /\ Cardinality(QsubsOf(u)) >= 2

\* the six scripts of a run
AllScriptNames ==
    {get_data_job_script_name, process_data_job_script_name,
     clean_data_script_name, put_data_script_name,
     check_data_job_script_name, mark_no_longer_running_script_name}

\* C24: whatever the requested stage, a run that renders renders all six
\* scripts, one after the other with no other call in between, and every
\* script handed to the scheduler was rendered earlier in the run
C24_RenderBeforeSubmit ==
    \A u \in Units :
        /\ \A i \in QsubsOf(u) :
               \E j \in OpsOf(u, "render") :
                   j < i /\ events[j].arg = events[i].arg
        /\ OpsOf(u, "render") # {} =>
               /\ {events[j].arg : j \in OpsOf(u, "render")} = AllScriptNames
               /\ Cardinality(OpsOf(u, "render")) = Cardinality(AllScriptNames)
               /\ \A i, j \in OpsOf(u, "render") : \A k \in DOMAIN events :
                      (i < k /\ k < j) => k \in OpsOf(u, "render")
        /\ (OpsOf(u, "mark_queued") # {} \/ QsubsOf(u) # {}) =>
               OpsOf(u, "render") # {}

\* C24 witness: a PREPARE_SCRIPTS run has rendered the six scripts and
\* submitted only the mark-complete one
C24_Witness ==
    \E u \in Units :
        /\ returned[u].has
        /\ StageOf(u) = PREPARE_SCRIPTS
        /\ Cardinality(OpsOf(u, "render")) = 6
        /\ Cardinality(QsubsOf(u)) = 1


\* the positions in events of the gate checks of unit u
GatesOf(u) == OpsOf(u, "gate")

\* C25: the driver handles the units one after the other in list order: the
\* calls of two units never interleave, the gate of a unit is consulted
\* once, and only when every earlier unit was skipped or has returned its
\* manifest
C25_UnitsInSequence ==
    /\ \A i, j \in DOMAIN events :
           i < j => events[i].unit <= events[j].unit
    /\ \A v \in Units :
           /\ Cardinality(GatesOf(v)) <= 1
           /\ GatesOf(v) # {} =>
                  \A u \in Units :
                      u < v =>
                          /\ GatesOf(u) # {}
                          /\ returned[u].has
                                 \/ \E g \in GatesOf(u) :
                                        events[g].arg = "queued_or_running"
                          /\ \A i \in DOMAIN events : \A g \in GatesOf(v) :
                                 events[i].unit = u => i < g

\* C25 witness: the batch driver has submitted jobs for the first unit and
\* then for the second
C25_Witness ==
    /\ driver = "batch"
    /\ \E u, v \in Units :
           /\ u < v
           /\ Cardinality(QsubsOf(u)) >= 2
           /\ Cardinality(QsubsOf(v)) >= 2

\* the positions in events where submit_jobs was entered for unit u: its
\* first directory creation
SubmitJobsCallsOf(u) ==
    {i \in OpsOf(u, "makedirs") : events[i].arg = WorkingSuffix}

\* C26: for every unit that passes the gate a new submitter is made and
\* configured before submit_jobs is entered, and submit_jobs is entered
\* once: at its entry nothing is memoised from an earlier unit and the stage
\* and the clean flag are those of the unit's configuration
C26_FreshInstancePerUnit ==
    /\ pc = "submit_jobs" =>
           /\ prefix = NoPrefix
           /\ config[idx].read
           /\ stage = StageOf(idx)
           /\ clean = config[idx].clean
    /\ \A u \in Units :
           /\ Cardinality(OpsOf(u, "from_string")) <= 1
           /\ Cardinality(SubmitJobsCallsOf(u)) <= 1
           /\ OpsOf(u, "from_string") # {} =>
                  \E g \in GatesOf(u) :
                      /\ events[g].arg = "clear"
                      /\ \A i \in OpsOf(u, "from_string") : g < i
           /\ \A i \in SubmitJobsCallsOf(u) :
                  \E j \in OpsOf(u, "from_string") : j < i /\ events[j].ok
           /\ returned[u].has => Cardinality(SubmitJobsCallsOf(u)) = 1

\* C26 witness: the batch driver is about to enter submit_jobs for the
\* second unit after the first unit's run has returned
C26_Witness ==
    /\ driver = "batch"
    /\ pc = "submit_jobs"
    /\ idx > FirstUnit
    /\ returned[FirstUnit].has


\* the positions in events of the mark-complete submissions of unit u
MarkCompleteQsubsOf(u) ==
    {i \in QsubsOf(u) : events[i].arg = mark_no_longer_running_script_name}

\* C27: the mark-complete job is submitted without a dependency exactly
\* when the requested stage is PREPARE_SCRIPTS; then no stage job was
\* submitted and the run never marked the unit queued, and the job is
\* submitted all the same
C27_MarkCompleteWithoutDependency ==
    \A u \in Units :
        /\ \A i \in MarkCompleteQsubsOf(u) :
               /\ events[i].dep = None <=> StageOf(u) = PREPARE_SCRIPTS
               /\ events[i].dep = None =>
                      /\ events[i].mode = "none"
                      /\ EarlierQsubs(u, i) = {}
                      /\ OpsOf(u, "mark_queued") = {}
        /\ (returned[u].has /\ StageOf(u) = PREPARE_SCRIPTS) =>
               \E i \in MarkCompleteQsubsOf(u) : events[i].ok

\* C27 witness: a PREPARE_SCRIPTS run has returned, its mark-complete job
\* accepted with no dependency and the unit not marked queued
C27_Witness ==
    \E u \in Units :
        /\ returned[u].has
        /\ runningStatus[u] = "idle"
        /\ \E i \in MarkCompleteQsubsOf(u) :
               /\ events[i].ok
               /\ events[i].dep = None
               /\ events[i].job # None

\* the number of stage steps at or below the requested stage of unit u
StepCount(u) == Cardinality({X \in StageStepSet : X <= StageOf(u)})

\* C28: no script is handed to the scheduler twice in a run, and a run
\* that returns has made one submission for each stage step at or below the
\* requested stage and one for the mark-complete step
C28_SubmissionCount ==
    \A u \in Units :
        /\ \A i, j \in QsubsOf(u) :
               events[i].arg = events[j].arg => i = j
        /\ Cardinality(QsubsOf(u)) <= StepCount(u) + 1
        /\ returned[u].has =>
               /\ Cardinality(QsubsOf(u)) = StepCount(u) + 1
               /\ \A i \in QsubsOf(u) : events[i].ok

\* C28 witness: a CLEAN_DATA run has returned after four submissions
C28_Witness ==
    \E u \in Units :
        /\ returned[u].has
        /\ StageOf(u) = CLEAN_DATA
        /\ StepCount(u) = 3
        /\ Cardinality(QsubsOf(u)) = 4

\* the directory the code puts a script into
HomeSuffix(name) ==
    CASE name = check_data_job_script_name -> CheckSuffix
      [] name = mark_no_longer_running_script_name -> MarkSuffix
      [] OTHER -> WorkingSuffix

\* C30: the three directories of a run are distinct and share one prefix;
\* they are all made before the first script is rendered; and every script
\* lies in the directory meant for it, which the run created
C30_ScriptsInsideOwnDirectories ==
    \A u \in Units :
        /\ \A d, e \in DirsOf(u) :
               /\ d.ts = e.ts
               /\ d.suffix = e.suffix => d = e
        /\ \A i \in OpsOf(u, "render") :
               /\ Cardinality({j \in OpsOf(u, "makedirs") :
                                  j < i /\ events[j].ok}) = 3
               /\ Cardinality(DirsOf(u)) = 3
        /\ \A f \in ScriptsOf(u) :
               /\ f.dir \in fsDirs
               /\ f.dir.suffix = HomeSuffix(f.name)
               /\ \E j \in OpsOf(u, "makedirs") :
                      events[j].ok /\ events[j].arg = f.dir.suffix

\* C30 witness: the six scripts have just been rendered into the three
\* directories
C30_Witness ==
    /\ pc = "mark_running_status"
    /\ Cardinality(ScriptsOf(idx)) = 6
    /\ Cardinality({f.dir : f \in ScriptsOf(idx)}) = 3
    /\ {f.dir : f \in ScriptsOf(idx)} = DirsOf(idx)


\* what script file f holds when it was just rendered
Fresh(f) == [exists |-> TRUE, text |-> <<Rendered(f)>>, exec |-> TRUE]

\* the latest position in events of an op call for script name, 0 if none
LastOf(op, name) ==
    LET S == {i \in DOMAIN events : events[i].op = op /\ events[i].arg = name}
    IN IF S = {} THEN 0 ELSE Max(S)

\* C21: a script file that was rendered after whatever else happened to it
\* holds exactly the rendered text, once, and is executable, whether it was
\* absent, held other text or held the same text before; the content files
\* and the script files are the same
C21_RenderReplaces ==
    /\ DOMAIN fsText = fsScripts
    /\ \A f \in DOMAIN fsText :
           LastOf("render", f.name) > LastOf("scribble", f.name) =>
               fsText[f] = Fresh(f)

\* C21 witness: a script that held other text was rendered again, and the
\* other scripts were rendered twice
C21_Witness ==
    \E f \in DOMAIN fsText :
        /\ LastOf("scribble", f.name) > 0
        /\ LastOf("render", f.name) > LastOf("scribble", f.name)
        /\ fsText[f] = Fresh(f)
        /\ Cardinality(RenderCalls) = 2 * Cardinality(fsScripts)


\* the jobs of unit u the scheduler holds
JobsIn(u) == {j \in DOMAIN queue : queue[j].unit = u}

\* C22: once a run has returned (all its submissions accepted), the unit's
\* running-status marker is eventually cleared, whether the stage jobs end
\* well, fail or are given up
C22_MarkerEventuallyCleared ==
    \A u \in Units : returned[u].has ~> (runningStatus[u] = "idle")

\* C22 witness: a stage job failed, the jobs after it were given up, and
\* the mark-complete job has run and cleared the marker
C22_Witness ==
    \E u \in Units :
        /\ returned[u].has
        /\ \E j \in JobsIn(u) : queue[j].state = "done_fail"
        /\ \E j \in JobsIn(u) : queue[j].state = "cancelled"
        /\ \E j \in JobsIn(u) :
               /\ queue[j].script = mark_no_longer_running_script_name
               /\ queue[j].mode = "afterany"
               /\ queue[j].state = "done_ok"
        /\ runningStatus[u] = "idle"


\* C29: a failed submission ends the run and undoes nothing: no call
\* follows it, the jobs accepted before it are still queued with the
\* scheduler, the unit the run marked queued is still marked queued, and the
\* three directories and the six rendered scripts are still there
C29_AbortUndoesNothing ==
    \A i \in DOMAIN events :
        FailedQsub(i) =>
            LET u == events[i].unit IN
            /\ i = Len(events)
            /\ pc = "aborted"
            /\ \A j \in EarlierQsubs(u, i) :
                   /\ events[j].ok
                   /\ events[j].job \in DOMAIN queue
                   /\ queue[events[j].job].script = events[j].arg
                   /\ queue[events[j].job].state = "queued"
            /\ Cardinality(JobsIn(u)) = Cardinality(EarlierQsubs(u, i))
            /\ OpsOf(u, "mark_queued") # {} => runningStatus[u] = "queued"
            /\ Cardinality(DirsOf(u)) = 3
            /\ Cardinality(ScriptsOf(u)) = 6
            /\ \A f \in ScriptsOf(u) : f \in DOMAIN fsText /\ fsText[f] = Fresh(f)

\* C29 witness: the clean-data submission failed after the get-data and
\* process-data jobs were accepted
C29_Witness ==
    \E i \in DOMAIN events :
        /\ FailedQsub(i)
        /\ events[i].arg = clean_data_script_name
        /\ Cardinality(JobsIn(events[i].unit)) = 2
        /\ runningStatus[events[i].unit] = "queued"

====
